---- MODULE Spec2Model ----
(***************************************************************************)
(* Model of the startup environment validation of the Kindergarten         *)
(* backend: checkEnvironment and validateEnvValue.                          *)
(*                                                                         *)
(* JavaScript strings are TLA+ strings; Len, Head, Tail, SubSeq and \o act *)
(* on them as on sequences of one-character strings.  process.env is a     *)
(* partial function from variable names to strings: a variable that is not *)
(* set is not in its DOMAIN.                                               *)
(***************************************************************************)
EXTENDS Integers, Sequences, FiniteSets, TLC

(***************************************************************************)
(* Bounds of the model.                                                    *)
(***************************************************************************)
\* number of calls of checkEnvironment made on one environment
MaxCalls == 2
\* longest value handed to validateEnvValue
MaxLen == 3

(***************************************************************************)
(* Constants of the program.                                               *)
(***************************************************************************)
requiredEnvVars == <<"PORT", "JWT_SECRET", "TELEGRAM_BOT_TOKEN", "TELEGRAM_CHAT_ID">>

optionalEnvVars ==
  <<"NODE_ENV", "MONGODB_URI", "SMTP_HOST", "SMTP_PORT", "SMTP_USER", "SMTP_PASS",
    "RATE_LIMIT_WINDOW_MS", "RATE_LIMIT_MAX_REQUESTS", "ALLOWED_ORIGINS",
    "ENCRYPTION_KEY">>

MinSecretLen == 32
DefaultSecret == "play-kids-secret-key"
ExampleSecret == "your_super_secret"
ExampleToken == "your_bot_token"
MinPort == 1
MaxPort == 65535
MinWindowMs == 1000
MinMaxRequests == 1

(***************************************************************************)
(* The built-ins of the language the code calls.                           *)
(***************************************************************************)
Range(s) == {s[i] : i \in 1..Len(s)}

\* the i-th character of a string
CharAt(s, i) == SubSeq(s, i, i)

\* String.prototype.includes
Includes(s, sub) ==
  \E i \in 1..(Len(s) - Len(sub) + 1) : SubSeq(s, i, i + Len(sub) - 1) = sub

\* String.prototype.startsWith
StartsWith(s, p) == Len(s) >= Len(p) /\ SubSeq(s, 1, Len(p)) = p

\* the characters \s matches and trim() strips, as far as the values here use them
WhiteSpace == {" ", "\t"}

RECURSIVE TrimStart(_)
TrimStart(s) ==
  IF s # "" /\ Head(s) \in WhiteSpace THEN TrimStart(Tail(s)) ELSE s

RECURSIVE TrimEnd(_)
TrimEnd(s) ==
  IF s # "" /\ CharAt(s, Len(s)) \in WhiteSpace
    THEN TrimEnd(SubSeq(s, 1, Len(s) - 1))
    ELSE s

\* String.prototype.trim
Trim(s) == TrimEnd(TrimStart(s))

\* String.prototype.split(','): the pieces between the commas, empty ones kept
RECURSIVE SplitFrom(_, _, _)
SplitFrom(s, i, cur) ==
  IF i > Len(s) THEN <<cur>>
  ELSE IF CharAt(s, i) = "," THEN <<cur>> \o SplitFrom(s, i + 1, "")
  ELSE SplitFrom(s, i + 1, cur \o CharAt(s, i))

Split(s) == SplitFrom(s, 1, "")

LowerDigits == "0123456789abcdef"
UpperDigits == "0123456789ABCDEF"

\* the value of a character as a digit, -1 when it is none
DigitValue(c) ==
  IF \E i \in 1..16 : CharAt(LowerDigits, i) = c
    THEN (CHOOSE i \in 1..16 : CharAt(LowerDigits, i) = c) - 1
  ELSE IF \E i \in 1..16 : CharAt(UpperDigits, i) = c
    THEN (CHOOSE i \in 1..16 : CharAt(UpperDigits, i) = c) - 1
  ELSE -1

IsDigit(c, radix) == DigitValue(c) \in 0..(radix - 1)

\* the longest prefix of s made of digits of the radix: its value and its length
RECURSIVE Digits(_, _, _, _)
Digits(s, radix, acc, n) ==
  IF s # "" /\ IsDigit(Head(s), radix)
    THEN Digits(Tail(s), radix, acc * radix + DigitValue(Head(s)), n + 1)
    ELSE [val |-> acc, count |-> n]

NaN == [nan |-> TRUE, val |-> 0]
Num(n) == [nan |-> FALSE, val |-> n]

\* parseInt(string) with no radix argument
parseInt(str) ==
  LET t == TrimStart(str)
      neg == t # "" /\ Head(t) = "-"
      u == IF t # "" /\ Head(t) \in {"+", "-"} THEN Tail(t) ELSE t
      hex == Len(u) >= 2 /\ SubSeq(u, 1, 2) \in {"0x", "0X"}
      radix == IF hex THEN 16 ELSE 10
      z == IF hex THEN SubSeq(u, 3, Len(u)) ELSE u
      r == Digits(z, radix, 0, 0)
  IN IF r.count = 0 THEN NaN
     ELSE Num(IF neg THEN 0 - r.val ELSE r.val)

isNaN(x) == x.nan

\* /^-?\d+$/.test(s)
MatchesInteger(s) ==
  LET d == IF StartsWith(s, "-") THEN Tail(s) ELSE s
  IN Len(d) >= 1 /\ \A i \in 1..Len(d) : IsDigit(CharAt(d, i), 10)

\* [^\s@]+ matches the whole of s
IsLocalPart(s) ==
  Len(s) >= 1 /\ \A i \in 1..Len(s) : CharAt(s, i) \notin (WhiteSpace \cup {"@"})

\* /^[^\s@]+@[^\s@]+\.[^\s@]+$/.test(s)
MatchesEmail(s) ==
  \E i \in 1..Len(s) : \E j \in (i + 1)..Len(s) :
    /\ CharAt(s, i) = "@"
    /\ CharAt(s, j) = "."
    /\ IsLocalPart(SubSeq(s, 1, i - 1))
    /\ IsLocalPart(SubSeq(s, i + 1, j - 1))
    /\ IsLocalPart(SubSeq(s, j + 1, Len(s)))

(***************************************************************************)
(* State.                                                                  *)
(***************************************************************************)
VARIABLES
  env,       \* process.env: the variables that are set, and their values
  pc,        \* where the current call of checkEnvironment stands
  missing,   \* const missing   of the current call
  warnings,  \* const warnings  of the current call
  critical,  \* const critical  of the current call
  out,       \* the console lines written by the current call, in order
  exits,     \* the statuses process.exit was called with in the current call
  calls,     \* number of calls of checkEnvironment started so far
  prev,      \* what the previous call built, wrote and how it ended
  vargs,     \* the arguments of a call of validateEnvValue
  vpc,       \* where that call stands
  vresult    \* what it returned

envVars == <<env, pc, missing, warnings, critical, out, exits, calls, prev>>
valueVars == <<vargs, vpc, vresult>>
vars == <<env, pc, missing, warnings, critical, out, exits, calls, prev,
          vargs, vpc, vresult>>

(***************************************************************************)
(* checkEnvironment: the findings (lines 27-92).                           *)
(***************************************************************************)
\* process.env[name] is truthy: set and not the empty string
IsSet(e, name) == name \in DOMAIN e /\ e[name] # ""

\* String(process.env[name]): what parseInt is handed
EnvString(e, name) == IF name \in DOMAIN e THEN e[name] ELSE "undefined"

MsgSecretShort == "JWT_SECRET must be at least 32 characters long for security"
MsgSecretDefault == "JWT_SECRET is using default value - CHANGE IT IMMEDIATELY!"
MsgSecretExample == "JWT_SECRET appears to be using example value"
MsgTokenExample == "TELEGRAM_BOT_TOKEN appears to be using example value"
MsgPort == "PORT should be a valid port number (1-65535)"
MsgWindow == "RATE_LIMIT_WINDOW_MS should be at least 1000ms"
MsgMaxRequests == "RATE_LIMIT_MAX_REQUESTS should be a positive number"
MsgChatId == "TELEGRAM_CHAT_ID should be a numeric value"
MsgOrigin(o) ==
  "Invalid origin format: " \o o \o ". Should start with http:// or https://"

When(cond, msg) == IF cond THEN <<msg>> ELSE <<>>

\* a variant of CheckRequired that takes an empty value for a set one
CheckRequiredDefinedOnly(e) ==
  SelectSeq(requiredEnvVars, LAMBDA v : v \notin DOMAIN e)

\* lines 32-36
CheckRequired(e) == SelectSeq(requiredEnvVars, LAMBDA v : ~IsSet(e, v))

\* a variant of CheckSecret that takes 32 characters for too short
CheckSecretOffByOne(e) ==
  When(IsSet(e, "JWT_SECRET") /\ Len(e["JWT_SECRET"]) <= MinSecretLen, MsgSecretShort)
  \o When(IsSet(e, "JWT_SECRET") /\ e["JWT_SECRET"] = DefaultSecret, MsgSecretDefault)
  \o When("JWT_SECRET" \in DOMAIN e /\ Includes(e["JWT_SECRET"], ExampleSecret),
          MsgSecretExample)

\* lines 39-51
CheckSecret(e) ==
  When(IsSet(e, "JWT_SECRET") /\ Len(e["JWT_SECRET"]) < MinSecretLen, MsgSecretShort)
  \o When(IsSet(e, "JWT_SECRET") /\ e["JWT_SECRET"] = DefaultSecret, MsgSecretDefault)
  \o When("JWT_SECRET" \in DOMAIN e /\ Includes(e["JWT_SECRET"], ExampleSecret),
          MsgSecretExample)

\* lines 53-55
CheckToken(e) ==
  When("TELEGRAM_BOT_TOKEN" \in DOMAIN e
         /\ Includes(e["TELEGRAM_BOT_TOKEN"], ExampleToken), MsgTokenExample)

\* lines 58-61
CheckPort(e) ==
  LET port == parseInt(EnvString(e, "PORT"))
  IN When(isNaN(port) \/ port.val < MinPort \/ port.val > MaxPort, MsgPort)

\* lines 64-76
CheckRateLimit(e) ==
  LET windowMs == parseInt(EnvString(e, "RATE_LIMIT_WINDOW_MS"))
      maxReq == parseInt(EnvString(e, "RATE_LIMIT_MAX_REQUESTS"))
  IN When(IsSet(e, "RATE_LIMIT_WINDOW_MS")
            /\ (isNaN(windowMs) \/ windowMs.val < MinWindowMs), MsgWindow)
     \o When(IsSet(e, "RATE_LIMIT_MAX_REQUESTS")
               /\ (isNaN(maxReq) \/ maxReq.val < MinMaxRequests), MsgMaxRequests)

\* lines 79-81
CheckChatId(e) ==
  When(IsSet(e, "TELEGRAM_CHAT_ID") /\ ~MatchesInteger(e["TELEGRAM_CHAT_ID"]),
       MsgChatId)

\* lines 86-91: one warning per piece that is not an http(s) origin
RECURSIVE OriginWarnings(_)
OriginWarnings(origins) ==
  IF origins = <<>> THEN <<>>
  ELSE LET trimmed == Trim(Head(origins))
       IN When(trimmed # "" /\ ~StartsWith(trimmed, "http://")
                 /\ ~StartsWith(trimmed, "https://"), MsgOrigin(trimmed))
          \o OriginWarnings(Tail(origins))

\* lines 84-92
CheckOrigins(e) ==
  IF IsSet(e, "ALLOWED_ORIGINS")
    THEN OriginWarnings(Split(e["ALLOWED_ORIGINS"]))
    ELSE <<>>

\* the warnings list as lines 53-92 fill it
CheckWarnings(e) ==
  CheckToken(e) \o CheckPort(e) \o CheckRateLimit(e) \o CheckChatId(e)
  \o CheckOrigins(e)

\* line 121
MissingOptional(e) == SelectSeq(optionalEnvVars, LAMBDA v : ~IsSet(e, v))

(***************************************************************************)
(* The console.                                                            *)
(***************************************************************************)
Line(stream, text) == [stream |-> stream, text |-> text]
Item(x) == "   - " \o x

RECURSIVE Items(_, _)
Items(stream, list) ==
  IF list = <<>> THEN <<>>
  ELSE <<Line(stream, Item(Head(list)))>> \o Items(stream, Tail(list))

TxtCriticalHeader == "CRITICAL SECURITY ISSUES:"
TxtFatal == "\nCannot start in production with critical security issues!"
TxtMissingHeader == "Missing required environment variables:"
TxtGuidance == "\nPlease check your .env file and backend/.env.example"
TxtWarningHeader == "Environment warnings:"
TxtValidated == "Environment variables validated"
TxtOptionalHeader == "Optional environment variables not set:"

NodeEnvIs(e, mode) == "NODE_ENV" \in DOMAIN e /\ e["NODE_ENV"] = mode

(***************************************************************************)
(* The environments the process is started in.  An option is <<>> for a    *)
(* variable that is not set and <<value>> for one that is.                 *)
(***************************************************************************)
PortOptions == {<<>>, <<"">>, <<"3000">>, <<"99999">>, <<"0">>}

SecretOptions ==
  { <<>>, <<"">>,
    <<"xxxxxxxxxxxxxxxxxxxxxxxxxxxxxxx">>,
    <<"xxxxxxxxxxxxxxxxxxxxxxxxxxxxxxxx">>,
    <<"play-kids-secret-key">>,
    <<"your_super_secret_jwt_key_change_this_in_production">> }

TokenOptions == {<<>>, <<"123456:ABC-DEF">>, <<"your_bot_token_here">>}

ChatIdOptions == {<<>>, <<"">>, <<"-1001234">>, <<"@channel">>}

NodeEnvOptions == {<<>>, <<"production">>, <<"development">>, <<"test">>}

WindowOptions == {<<>>, <<"500">>, <<"900000">>}

MaxRequestsOptions == {<<>>, <<"abc">>, <<"100">>}

OriginsOptions ==
  {<<>>, <<"http://localhost:5173">>, <<"https://a.uz, b.uz,,localhost">>}

\* the optional variables no check reads
PlainVars ==
  {"MONGODB_URI", "SMTP_HOST", "SMTP_PORT", "SMTP_USER", "SMTP_PASS",
   "ENCRYPTION_KEY"}

PlainOptions == {{}, {"SMTP_HOST", "SMTP_PORT"}, PlainVars}

\* process.env of the choices: the variables with an option <<value>>
EnvOf(ch) == [v \in {n \in DOMAIN ch : ch[n] # <<>>} |-> ch[v][1]]

Environments ==
  { EnvOf(  ("PORT" :> p) @@ ("JWT_SECRET" :> j) @@ ("TELEGRAM_BOT_TOKEN" :> b)
         @@ ("TELEGRAM_CHAT_ID" :> c) @@ ("NODE_ENV" :> n)
         @@ ("RATE_LIMIT_WINDOW_MS" :> w) @@ ("RATE_LIMIT_MAX_REQUESTS" :> m)
         @@ ("ALLOWED_ORIGINS" :> o)
         @@ [v \in PlainVars |-> IF v \in x THEN <<"set">> ELSE <<>>] ) :
      p \in PortOptions, j \in SecretOptions, b \in TokenOptions,
      c \in ChatIdOptions, n \in NodeEnvOptions, w \in WindowOptions,
      m \in MaxRequestsOptions, o \in OriginsOptions, x \in PlainOptions }

NoCall ==
  [valid |-> FALSE, missing |-> <<>>, warnings |-> <<>>, critical |-> <<>>,
   out |-> <<>>, exits |-> <<>>, pc |-> "idle"]

ThisCall ==
  [valid |-> TRUE, missing |-> missing, warnings |-> warnings,
   critical |-> critical, out |-> out, exits |-> exits, pc |-> pc]

ValueIdle ==
  /\ vargs = [name |-> "PORT", value |-> [kind |-> "undefined", str |-> ""],
              type |-> "string"]
  /\ vpc = "idle"
  /\ vresult = FALSE

Init ==
  /\ env \in Environments
  /\ pc = "idle"
  /\ missing = <<>>
  /\ warnings = <<>>
  /\ critical = <<>>
  /\ out = <<>>
  /\ exits = <<>>
  /\ calls = 0
  /\ prev = NoCall
  /\ ValueIdle

(***************************************************************************)
(* checkEnvironment, step by step.                                         *)
(***************************************************************************)
\* a variant of Validate whose lists outlive the call
ValidateStale ==
  /\ pc \in {"idle", "returned", "exited"}
  /\ calls < MaxCalls
  /\ calls' = calls + 1
  /\ prev' = IF calls = 0 THEN NoCall ELSE ThisCall
  /\ missing' = missing \o CheckRequired(env)
  /\ critical' = critical \o CheckSecret(env)
  /\ warnings' = warnings \o CheckWarnings(env)
  /\ out' = <<>>
  /\ exits' = <<>>
  /\ pc' = "critical"
  /\ UNCHANGED <<env, valueVars>>

\* lines 26-92: a call starts with three empty lists and fills them.  A call
\* follows a call that returned, or starts the process again after an exit.
Validate ==
  /\ pc \in {"idle", "returned", "exited"}
  /\ calls < MaxCalls
  /\ calls' = calls + 1
  /\ prev' = IF calls = 0 THEN NoCall ELSE ThisCall
  /\ missing' = CheckRequired(env)
  /\ critical' = CheckSecret(env)
  /\ warnings' = CheckWarnings(env)
  /\ out' = <<>>
  /\ exits' = <<>>
  /\ pc' = "critical"
  /\ UNCHANGED <<env, valueVars>>

\* a variant of ReportCritical that halts on a Critical finding in any mode
ReportCriticalAnyMode ==
  /\ pc = "critical"
  /\ IF critical # <<>>
       THEN /\ out' = out \o <<Line("error", TxtCriticalHeader)>>
                       \o Items("error", critical)
                       \o <<Line("error", TxtFatal)>>
            /\ exits' = Append(exits, 1)
            /\ pc' = "exited"
       ELSE /\ pc' = "missing"
            /\ UNCHANGED <<out, exits>>
  /\ UNCHANGED <<env, missing, warnings, critical, calls, prev, valueVars>>

\* a variant of ReportCritical that requests the exit and goes on to line 105
ReportCriticalGoesOn ==
  /\ pc = "critical"
  /\ IF critical # <<>>
       THEN IF NodeEnvIs(env, "production")
              THEN /\ out' = out \o <<Line("error", TxtCriticalHeader)>>
                              \o Items("error", critical)
                              \o <<Line("error", TxtFatal)>>
                   /\ exits' = Append(exits, 1)
                   /\ pc' = "missing"
              ELSE /\ out' = out \o <<Line("error", TxtCriticalHeader)>>
                              \o Items("error", critical)
                   /\ exits' = exits
                   /\ pc' = "missing"
       ELSE /\ pc' = "missing"
            /\ UNCHANGED <<out, exits>>
  /\ UNCHANGED <<env, missing, warnings, critical, calls, prev, valueVars>>

\* lines 95-102
ReportCritical ==
  /\ pc = "critical"
  /\ IF critical # <<>>
       THEN IF NodeEnvIs(env, "production")
              THEN /\ out' = out \o <<Line("error", TxtCriticalHeader)>>
                              \o Items("error", critical)
                              \o <<Line("error", TxtFatal)>>
                   /\ exits' = Append(exits, 1)
                   /\ pc' = "exited"
              ELSE /\ out' = out \o <<Line("error", TxtCriticalHeader)>>
                              \o Items("error", critical)
                   /\ exits' = exits
                   /\ pc' = "missing"
       ELSE /\ pc' = "missing"
            /\ UNCHANGED <<out, exits>>
  /\ UNCHANGED <<env, missing, warnings, critical, calls, prev, valueVars>>

\* a variant of ReportMissing that exits without the guidance line
ReportMissingNoGuidance ==
  /\ pc = "missing"
  /\ IF missing # <<>>
       THEN /\ out' = out \o <<Line("error", TxtMissingHeader)>>
                       \o Items("error", missing)
            /\ exits' = Append(exits, 1)
            /\ pc' = "exited"
       ELSE /\ pc' = "warnings"
            /\ UNCHANGED <<out, exits>>
  /\ UNCHANGED <<env, missing, warnings, critical, calls, prev, valueVars>>

\* lines 105-110
ReportMissing ==
  /\ pc = "missing"
  /\ IF missing # <<>>
       THEN /\ out' = out \o <<Line("error", TxtMissingHeader)>>
                       \o Items("error", missing)
                       \o <<Line("error", TxtGuidance)>>
            /\ exits' = Append(exits, 1)
            /\ pc' = "exited"
       ELSE /\ pc' = "warnings"
            /\ UNCHANGED <<out, exits>>
  /\ UNCHANGED <<env, missing, warnings, critical, calls, prev, valueVars>>

\* a variant of ReportWarnings that treats a warning as fatal
ReportWarningsStrict ==
  /\ pc = "warnings"
  /\ IF warnings # <<>>
       THEN /\ out' = out \o <<Line("warn", TxtWarningHeader)>>
                       \o Items("warn", warnings)
            /\ exits' = Append(exits, 1)
            /\ pc' = "exited"
       ELSE /\ pc' = "validated"
            /\ UNCHANGED <<out, exits>>
  /\ UNCHANGED <<env, missing, warnings, critical, calls, prev, valueVars>>

\* lines 112-115
ReportWarnings ==
  /\ pc = "warnings"
  /\ out' = IF warnings # <<>>
              THEN out \o <<Line("warn", TxtWarningHeader)>>
                       \o Items("warn", warnings)
              ELSE out
  /\ pc' = "validated"
  /\ UNCHANGED <<env, missing, warnings, critical, exits, calls, prev, valueVars>>

\* a variant of ReportValidated that keeps silent after warnings
ReportValidatedUnlessWarnings ==
  /\ pc = "validated"
  /\ out' = IF warnings = <<>> THEN Append(out, Line("log", TxtValidated)) ELSE out
  /\ pc' = "optional"
  /\ UNCHANGED <<env, missing, warnings, critical, exits, calls, prev, valueVars>>

\* line 117
ReportValidated ==
  /\ pc = "validated"
  /\ out' = Append(out, Line("log", TxtValidated))
  /\ pc' = "optional"
  /\ UNCHANGED <<env, missing, warnings, critical, exits, calls, prev, valueVars>>

\* a variant of ReportOptional that lists the optional variables in every mode
ReportOptionalAnyMode ==
  /\ pc = "optional"
  /\ out' = IF MissingOptional(env) # <<>>
              THEN out \o <<Line("log", TxtOptionalHeader)>>
                       \o Items("log", MissingOptional(env))
              ELSE out
  /\ pc' = "returned"
  /\ UNCHANGED <<env, missing, warnings, critical, exits, calls, prev, valueVars>>

\* lines 120-127
ReportOptional ==
  /\ pc = "optional"
  /\ out' = IF NodeEnvIs(env, "development") /\ MissingOptional(env) # <<>>
              THEN out \o <<Line("log", TxtOptionalHeader)>>
                       \o Items("log", MissingOptional(env))
              ELSE out
  /\ pc' = "returned"
  /\ UNCHANGED <<env, missing, warnings, critical, exits, calls, prev, valueVars>>

Next ==
  \/ Validate
  \/ ReportCritical
  \/ ReportMissing
  \/ ReportWarnings
  \/ ReportValidated
  \/ ReportOptional

Spec == Init /\ [][Next]_vars

(***************************************************************************)
(* validateEnvValue (lines 130-150).  A value is a string, null or         *)
(* undefined.  The 'url' type hands the value to the platform's URL parser *)
(* and is left out of the types drawn here.                                *)
(***************************************************************************)
Undefined == [kind |-> "undefined", str |-> ""]
Null == [kind |-> "null", str |-> ""]
Str(s) == [kind |-> "string", str |-> s]

\* !value
Falsy(value) == value.kind # "string" \/ value.str = ""

\* a variant of validateEnvValue that wants the whole value to be an integer
validateEnvValueWhole(name, value, type) ==
  IF Falsy(value) THEN FALSE
  ELSE CASE type = "number" -> MatchesInteger(value.str)
         [] type = "boolean" -> value.str = "true" \/ value.str = "false"
         [] type = "email" -> MatchesEmail(value.str)
         [] OTHER -> value.kind = "string" /\ Len(value.str) > 0

validateEnvValue(name, value, type) ==
  IF Falsy(value) THEN FALSE
  ELSE CASE type = "number" -> ~isNaN(parseInt(value.str))
         [] type = "boolean" -> value.str = "true" \/ value.str = "false"
         [] type = "email" -> MatchesEmail(value.str)
         [] OTHER -> value.kind = "string" /\ Len(value.str) > 0

Alphabet == {" ", "-", "+", "0", "7", "x", "a", "z"}

RECURSIVE StringsUpTo(_)
StringsUpTo(n) ==
  IF n = 0 THEN {""}
  ELSE LET S == StringsUpTo(n - 1)
       IN S \cup {s \o c : s \in S, c \in Alphabet}

Values ==
  {Undefined, Null}
  \cup {Str(s) : s \in StringsUpTo(MaxLen)}
  \cup {Str(s) : s \in {"3000", "0x1F", "12px", "true", "false", "a@b.co", "a@b"}}

Names == {"PORT", "SMTP_PORT"}
Types == {"number", "boolean", "email", "string"}

NoEnv == [v \in {} |-> ""]

InitValue ==
  /\ env = NoEnv
  /\ pc = "idle"
  /\ missing = <<>>
  /\ warnings = <<>>
  /\ critical = <<>>
  /\ out = <<>>
  /\ exits = <<>>
  /\ calls = 0
  /\ prev = NoCall
  /\ vargs \in [name : Names, value : Values, type : Types]
  /\ vpc = "idle"
  /\ vresult = FALSE

ValidateValue ==
  /\ vpc = "idle"
  /\ vresult' = validateEnvValue(vargs.name, vargs.value, vargs.type)
  /\ vpc' = "done"
  /\ UNCHANGED <<vargs, envVars>>

NextValue == ValidateValue

SpecValue == InitValue /\ [][NextValue]_vars

(***************************************************************************)
(* Vocabulary of the properties.                                           *)
(***************************************************************************)
RequiredSettings == <<"PORT", "JWT_SECRET", "TELEGRAM_BOT_TOKEN", "TELEGRAM_CHAT_ID">>

OptionalSettings ==
  <<"NODE_ENV", "MONGODB_URI", "SMTP_HOST", "SMTP_PORT", "SMTP_USER", "SMTP_PASS",
    "RATE_LIMIT_WINDOW_MS", "RATE_LIMIT_MAX_REQUESTS", "ALLOWED_ORIGINS",
    "ENCRYPTION_KEY">>

Absent(v) == v \notin DOMAIN env \/ env[v] = ""
AbsentRequired == {v \in Range(RequiredSettings) : Absent(v)}
AbsentOptional == {v \in Range(OptionalSettings) : Absent(v)}

InProduction == "NODE_ENV" \in DOMAIN env /\ env["NODE_ENV"] = "production"
InDevelopment == "NODE_ENV" \in DOMAIN env /\ env["NODE_ENV"] = "development"

Halted == pc = "exited"
Proceeded == pc = "returned"
Ended == Halted \/ Proceeded

Pos(order, v) == CHOOSE i \in 1..Len(order) : order[i] = v

\* list holds exactly the members of S, each once, in the order of `order'
IsSelection(list, order, S) ==
  /\ Range(list) = S
  /\ Len(list) = Cardinality(S)
  /\ \A i, j \in 1..Len(list) : i < j => Pos(order, list[i]) < Pos(order, list[j])

Has(text) == \E i \in 1..Len(out) : out[i].text = text
Count(text) == Cardinality({i \in 1..Len(out) : out[i].text = text})
IndexOf(text) == CHOOSE i \in 1..Len(out) : out[i].text = text
LastText == IF out = <<>> THEN "" ELSE out[Len(out)].text

\* the lines k+1.. of out are the items of list, one line each, in order
ItemsAt(k, list) ==
  /\ Len(out) >= k + Len(list)
  /\ \A i \in 1..Len(list) : out[k + i].text = Item(list[i])

\* the critical block opens the output: header, then one line per finding
CriticalReported == out # <<>> /\ out[1].text = TxtCriticalHeader /\ ItemsAt(1, critical)

\* the missing block closes the output: header, one line per name, guidance
MissingReported ==
  \E k \in 1..Len(out) :
    /\ out[k].text = TxtMissingHeader
    /\ ItemsAt(k, missing)
    /\ Len(out) = k + Len(missing) + 1
    /\ out[Len(out)].text = TxtGuidance

InfoLines == {i \in 1..Len(out) : out[i].stream = "log" /\ out[i].text # TxtValidated}

(***************************************************************************)
(* C1: if a required setting is absent or empty, the call ends in Halt     *)
(* with exit status 1 and the missing list holds exactly the absent or     *)
(* empty required names, each once, in the order PORT, JWT_SECRET,         *)
(* TELEGRAM_BOT_TOKEN, TELEGRAM_CHAT_ID.                                   *)
(***************************************************************************)
C1_MissingHalts ==
  (calls > 0 /\ AbsentRequired # {}) =>
    /\ ~Proceeded
    /\ exits # <<>> => Halted
    /\ Halted => exits = <<1>>
    /\ IsSelection(missing, RequiredSettings, AbsentRequired)

C1_Witness ==
  /\ Halted
  /\ exits = <<1>>
  /\ missing = <<"PORT", "TELEGRAM_CHAT_ID">>
  /\ "PORT" \in DOMAIN env /\ "TELEGRAM_CHAT_ID" \notin DOMAIN env

(***************************************************************************)
(* C2: with a Critical finding in production the call halts with status 1  *)
(* after the header, every Critical finding and the fatal notice were      *)
(* written; outside production, with no required setting missing, the      *)
(* same Critical findings are written and the call proceeds.               *)
(***************************************************************************)
C2_CriticalHaltsInProduction ==
  (Ended /\ critical # <<>>) =>
    /\ InProduction =>
         /\ Halted
         /\ exits = <<1>>
         /\ CriticalReported
         /\ Len(out) = Len(critical) + 2
         /\ LastText = TxtFatal
    /\ (~InProduction /\ AbsentRequired = {}) =>
         /\ Proceeded
         /\ exits = <<>>
         /\ CriticalReported
         /\ ~Has(TxtFatal)

C2_Witness ==
  /\ Proceeded
  /\ Len(critical) = 2
  /\ "NODE_ENV" \notin DOMAIN env
  /\ prev.valid

(***************************************************************************)
(* C3: warnings and info never halt: with the four required settings       *)
(* non-empty and no (Critical finding in production), the call proceeds    *)
(* and process.exit is not called, however many warnings there are.        *)
(***************************************************************************)
C3_WarningsNeverHalt ==
  (calls > 0 /\ AbsentRequired = {} /\ ~(critical # <<>> /\ InProduction)) =>
    /\ ~Halted
    /\ exits = <<>>

C3_Witness ==
  /\ Proceeded
  /\ Len(warnings) >= 5
  /\ InProduction
  /\ exits = <<>>

(***************************************************************************)
(* C4: process.exit is called exactly once in a call that halts and never  *)
(* in one that proceeds, also when a Critical finding in production and a  *)
(* Missing finding coexist; no line is written after the exit.             *)
(***************************************************************************)
C4_ExitOnce ==
  /\ [](/\ Len(exits) <= 1
        /\ Halted <=> Len(exits) = 1
        /\ Proceeded => exits = <<>>)
  /\ [][(exits # <<>> /\ calls' = calls) => (out' = out /\ exits' = exits)]_vars

C4_Witness ==
  /\ Halted
  /\ critical # <<>>
  /\ InProduction
  /\ missing # <<>>
  /\ exits = <<1>>

(***************************************************************************)
(* C5, as stated: whenever the missing list is non-empty, in any mode, a   *)
(* halt comes after the missing header, one line per name and the          *)
(* guidance line.                                                          *)
(***************************************************************************)
C5_AsStated == (Halted /\ missing # <<>>) => MissingReported

(***************************************************************************)
(* C5, amended: whenever the missing list is non-empty and there is no     *)
(* Critical finding in production, the halt comes after the missing        *)
(* header, one line per name and the guidance line; with a Critical        *)
(* finding in production the call halts after the fatal notice and the     *)
(* missing names are not written.                                          *)
(***************************************************************************)
C5_MissingReportedUnlessFatal ==
  (Halted /\ missing # <<>>) =>
    IF critical # <<>> /\ InProduction
      THEN ~Has(TxtMissingHeader) /\ ~Has(TxtGuidance) /\ LastText = TxtFatal
      ELSE MissingReported

C5_Witness ==
  /\ Halted
  /\ Len(missing) = 3
  /\ critical # <<>>
  /\ InDevelopment
  /\ MissingReported

(***************************************************************************)
(* C6, as stated: with no Missing finding the success line is written      *)
(* exactly once, after the warning lines, and it is never written when a   *)
(* Missing finding is present.                                             *)
(***************************************************************************)
C6_AsStated ==
  /\ (Ended /\ missing = <<>>) => Count(TxtValidated) = 1
  /\ (calls > 0 /\ missing # <<>>) => Count(TxtValidated) = 0

(***************************************************************************)
(* C6, amended: with no Missing finding and no Critical finding in         *)
(* production the success line is written exactly once, after the warning  *)
(* lines; it is never written when a Missing finding is present or when    *)
(* the call halts.                                                         *)
(***************************************************************************)
C6_ValidatedOnceUnlessHalt ==
  /\ (Ended /\ missing = <<>> /\ ~(critical # <<>> /\ InProduction)) =>
       /\ Count(TxtValidated) = 1
       /\ \A i \in 1..Len(out) : out[i].stream = "warn" => i < IndexOf(TxtValidated)
       /\ warnings # <<>> =>
            \E k \in 1..Len(out) :
              /\ out[k].text = TxtWarningHeader
              /\ ItemsAt(k, warnings)
              /\ IndexOf(TxtValidated) = k + Len(warnings) + 1
  /\ (calls > 0 /\ (missing # <<>> \/ Halted)) => Count(TxtValidated) = 0

C6_Witness ==
  /\ Proceeded
  /\ critical # <<>>
  /\ Len(warnings) >= 2
  /\ Count(TxtValidated) = 1

(***************************************************************************)
(* C7: a JWT_SECRET of length >= 32 that is not the default value and does *)
(* not contain "your_super_secret" yields no Critical finding, so no halt  *)
(* of such an environment comes from the Critical findings.                *)
(***************************************************************************)
StrongSecret ==
  /\ "JWT_SECRET" \in DOMAIN env
  /\ Len(env["JWT_SECRET"]) >= 32
  /\ env["JWT_SECRET"] # "play-kids-secret-key"
  /\ \A i \in 1..(Len(env["JWT_SECRET"]) - 16) :
       SubSeq(env["JWT_SECRET"], i, i + 16) # "your_super_secret"

C7_StrongSecretNoCritical ==
  (calls > 0 /\ StrongSecret) =>
    /\ critical = <<>>
    /\ ~Has(TxtCriticalHeader)
    /\ ~Has(TxtFatal)
    /\ Halted => AbsentRequired # {}

C7_Witness ==
  /\ Proceeded
  /\ InProduction
  /\ StrongSecret
  /\ Len(env["JWT_SECRET"]) = 32
  /\ critical = <<>>

(***************************************************************************)
(* C8: a second call on the unchanged environment builds the same three    *)
(* lists, writes the same lines and ends the same way as the first;        *)
(* nothing of the first call's lists is carried over, and no call changes  *)
(* the environment.                                                        *)
(***************************************************************************)
C8_Idempotent ==
  /\ []((Ended /\ prev.valid) =>
          /\ missing = prev.missing
          /\ warnings = prev.warnings
          /\ critical = prev.critical
          /\ out = prev.out
          /\ exits = prev.exits
          /\ pc = prev.pc)
  /\ [][env' = env]_vars

C8_Witness ==
  /\ Proceeded
  /\ calls = 2
  /\ prev.valid
  /\ prev.warnings # <<>>
  /\ prev.critical # <<>>
  /\ Len(prev.out) >= 5

(***************************************************************************)
(* C9: validateEnvValue(name, v, 'number') is true exactly when v is a     *)
(* non-empty string that begins, after white space and an optional sign,   *)
(* with an integer parseInt reads: decimal digits, or 0x/0X and a          *)
(* hexadecimal digit.  It is false for "", null, undefined and "abc", and  *)
(* the name plays no part.                                                 *)
(***************************************************************************)
DecimalDigits == {"0", "1", "2", "3", "4", "5", "6", "7", "8", "9"}
HexDigits ==
  DecimalDigits \cup {"a", "b", "c", "d", "e", "f", "A", "B", "C", "D", "E", "F"}

HasLeadingInteger(s) ==
  \E k \in 0..Len(s) : \E g \in 0..1 :
    /\ \A i \in 1..k : CharAt(s, i) \in {" ", "\t"}
    /\ g = 1 => (k + 1 <= Len(s) /\ CharAt(s, k + 1) \in {"+", "-"})
    /\ LET d == k + g + 1
       IN /\ d <= Len(s)
          /\ IF d + 1 <= Len(s) /\ CharAt(s, d) = "0" /\ CharAt(s, d + 1) \in {"x", "X"}
               THEN d + 2 <= Len(s) /\ CharAt(s, d + 2) \in HexDigits
               ELSE CharAt(s, d) \in DecimalDigits

C9_NumberIffLeadingInteger ==
  (vpc = "done" /\ vargs.type = "number") =>
    /\ vresult <=> (vargs.value.kind = "string" /\ vargs.value.str # ""
                      /\ HasLeadingInteger(vargs.value.str))
    /\ vargs.value \in {Str(""), Null, Undefined, Str("a"), Str("x"), Str("-")}
         => vresult = FALSE

C9_Witness ==
  /\ vpc = "done"
  /\ vargs.type = "number"
  /\ vargs.value = Str(" -7")
  /\ vresult = TRUE

(***************************************************************************)
(* C10: Info lines are written only in development mode in a call that     *)
(* proceeds; they then list exactly the optional settings that are absent  *)
(* or empty, in the order of OptionalSettings, after the success line; no  *)
(* Info line is written in a call that halts or outside development.       *)
(***************************************************************************)
InfoListed ==
  LET k == IndexOf(TxtValidated)
      n == Len(out) - k
  IN IF AbsentOptional = {}
       THEN n = 0
       ELSE /\ n = 1 + Cardinality(AbsentOptional)
            /\ out[k + 1].text = TxtOptionalHeader
            /\ \A i \in 2..n : \E v \in Range(OptionalSettings) :
                 out[k + i].text = Item(v)
            /\ IsSelection(
                 [i \in 1..(n - 1) |->
                    CHOOSE v \in Range(OptionalSettings) : out[k + 1 + i].text = Item(v)],
                 OptionalSettings, AbsentOptional)

C10_InfoOnlyInDevelopment ==
  /\ InfoLines # {} => (InDevelopment /\ Proceeded)
  /\ (Proceeded /\ InDevelopment) =>
       /\ Has(TxtValidated)
       /\ InfoLines = (IndexOf(TxtValidated) + 1)..Len(out)
       /\ InfoListed
  /\ (Halted \/ ~InDevelopment) => InfoLines = {}

C10_Witness ==
  /\ Proceeded
  /\ InDevelopment
  /\ Cardinality(InfoLines) = 4
  /\ warnings # <<>>

====
